---- MODULE Spec2Model ----
(***************************************************************************)
(* A model of pykCSD/KCSD3D.py: the KCSD3D object, its construction, the   *)
(* assembly of its matrices, the two estimators and the cross-validated    *)
(* choice of the regularisation parameter.                                 *)
(*                                                                         *)
(* Numbers.  Coordinates and lengths are fixed-point integers (one unit is *)
(* the resolution of the arithmetic); norm() returns the representable     *)
(* number nearest to the square root, as floating point does at its own    *)
(* resolution.  A regularisation parameter lambda is kept as its numerator *)
(* over LamDen, so 1/2^n is exact.  An object is a function from attribute *)
(* names to values, like the instance dictionary: an attribute that was    *)
(* never assigned is not in its DOMAIN.                                    *)
(***************************************************************************)
EXTENDS Integers, Sequences, FiniteSets, TLC

VARIABLES
  pc,        \* "start" | "constructed" | "failed": the life of the one object
  self,      \* the instance dictionary of the KCSD3D object
  build,     \* which build of numpy runs (decides the out-of-range uint16 cast)
  args,      \* the arguments the constructor was called with
  last_op,   \* the call that made the last step
  ret,       \* what the last call gave its caller: [exc, val]
  beta,      \* the local variable beta of an estimate_* call, as the call leaves it
  cv,        \* the candidates and cross-validation errors fixed in advance, if any
  chosen     \* what choose_lambda returned, until the caller assigns lambd

vars == <<pc, self, build, args, last_op, ret, beta, cv, chosen>>

-----------------------------------------------------------------------------
(* Arithmetic *)

Min(a, b) == IF a < b THEN a ELSE b

Max(a, b) == IF a > b THEN a ELSE b

SetMax(S) == CHOOSE x \in S : \A y \in S : y <= x

SetMin(S) == CHOOSE x \in S : \A y \in S : x <= y

RECURSIVE IsqrtBetween(_, _, _)
IsqrtBetween(n, lo, hi) ==
  IF lo >= hi THEN lo
  ELSE LET mid == (lo + hi + 1) \div 2
       IN  IF mid * mid <= n THEN IsqrtBetween(n, mid, hi)
           ELSE IsqrtBetween(n, lo, mid - 1)

\* the square roots of the small numbers, worked out once
SmallRoots == [n \in 0..4095 |-> IsqrtBetween(n, 0, Min(n, 64))]

\* x ** 0.5 and np.sqrt at the resolution of the arithmetic: the nearest number
Sqrt(n) ==
  LET k == IF n \in DOMAIN SmallRoots THEN SmallRoots[n]
           ELSE IsqrtBetween(n, 64, 46339)
  IN  IF n - k * k > k THEN k + 1 ELSE k

\* np.round of the quotient num/den (den > 0, num >= 0): half goes to even
Round(num, den) ==
  LET q == num \div den
      r == num % den
  IN  IF 2 * r < den THEN q
      ELSE IF 2 * r > den THEN q + 1
      ELSE IF q % 2 = 0 THEN q ELSE q + 1

\* numpy.linalg.norm of the difference of two points
norm(p, q) ==
  Sqrt((p[1] - q[1]) * (p[1] - q[1]) + (p[2] - q[2]) * (p[2] - q[2])
       + (p[3] - q[3]) * (p[3] - q[3]))

\* dict.get(key, default)
Get(d, key, default) == IF key \in DOMAIN d THEN d[key] ELSE default

-----------------------------------------------------------------------------
(* Arrays: a matrix is a sequence of rows, a 3D array a sequence of        *)
(* matrices; indices start at 1 here and at 0 in the code.                 *)

\* an array holds values, not expressions: it is evaluated once, when it is made
Array(A) == CHOOSE a \in {A} : a = a

\* F applied to the value of v, v being evaluated once: a local variable
With(v, F(_)) == CHOOSE r \in {F(x) : x \in {v}} : TRUE

Shape2(A) == <<Len(A), Len(A[1])>>

Shape3(A) == <<Len(A), Len(A[1]), Len(A[1][1])>>

Values3(A) ==
  {A[a][b][c] : a \in 1..Len(A), b \in 1..Len(A[1]), c \in 1..Len(A[1][1])}

\* np.linspace(start, stop, num)
linspace(start, stop, num) ==
  [i \in 1..num |->
     IF num = 1 THEN start
     ELSE start + ((i - 1) * (stop - start)) \div (num - 1)]

\* np.meshgrid(lin_x, lin_y, lin_z) with the default 'xy' indexing: the first
\* axis of each output runs over lin_y, the second over lin_x
meshgrid(lin_x, lin_y, lin_z) ==
  [X |-> [a \in 1..Len(lin_y) |-> [b \in 1..Len(lin_x) |->
            [c \in 1..Len(lin_z) |-> lin_x[b]]]],
   Y |-> [a \in 1..Len(lin_y) |-> [b \in 1..Len(lin_x) |->
            [c \in 1..Len(lin_z) |-> lin_y[a]]]],
   Z |-> [a \in 1..Len(lin_y) |-> [b \in 1..Len(lin_x) |->
            [c \in 1..Len(lin_z) |-> lin_z[c]]]]]

-----------------------------------------------------------------------------
(* Construction *)

\* len of the candidate list self.lambdas is 20 in the code; the model keeps
\* the first MaxLambdaExp + 1 of them
MaxLambdaExp == 0

LamDen == 2 ^ MaxLambdaExp

\* the number of source centres make_src_3D may put on one axis
MaxSrcPerAxis == 2

dist_table_density == 100

SourceTypes == {"gaussian", "step", "gauss_lim"}

\* validate_parameters without its second check
validate_parameters_lengths_only(elec_pos, sampled_pots) ==
  IF Len(elec_pos) # Len(sampled_pots)
  THEN "Number of measured potentials is not equal to electrode number!"
  ELSE ""

\* the second return value: "" when nothing is raised
validate_parameters(elec_pos, sampled_pots) ==
  IF Len(elec_pos) # Len(sampled_pots)
  THEN "Number of measured potentials is not equal to electrode number!"
  ELSE IF Len(elec_pos) < 4
  THEN "Number of electrodes must be at least 4!"
  ELSE ""

\* scipy.spatial.distance.pdist(elec_pos).min()
pdist_min(elec_pos) ==
  SetMin({norm(elec_pos[p[1]], elec_pos[p[2]]) :
            p \in {q \in (1..Len(elec_pos)) \X (1..Len(elec_pos)) : q[1] < q[2]}})

\* the lattice shapes make_src_3D may settle on for a requested source count
SrcShapes(n_sources) ==
  {s \in (1..MaxSrcPerAxis) \X (1..MaxSrcPerAxis) \X (1..MaxSrcPerAxis) :
     s[1] * s[2] * s[3] = n_sources}

\* source_distribution.make_src_3D: a regular lattice over the box of the grid
\* widened by the margins, `shape` centres per axis (one layer on an axis of
\* no extent), and the radius R shared by all sources
make_src_3D(space_X, space_Y, space_Z, shape, ext_X, ext_Y, ext_Z, R_init) ==
  LET lo(A, ext) == SetMin(Values3(A)) - ext
      hi(A, ext) == SetMax(Values3(A)) + ext
      layers(A, ext, n) == IF lo(A, ext) = hi(A, ext) THEN 1 ELSE n
      nx == layers(space_X, ext_X, shape[1])
      ny == layers(space_Y, ext_Y, shape[2])
      nz == layers(space_Z, ext_Z, shape[3])
      xs == linspace(lo(space_X, ext_X), hi(space_X, ext_X), nx)
      ys == linspace(lo(space_Y, ext_Y), hi(space_Y, ext_Y), ny)
      zs == linspace(lo(space_Z, ext_Z), hi(space_Z, ext_Z), nz)
  IN  [X_src |-> [i \in 1..nx |-> [j \in 1..ny |-> [k \in 1..nz |-> xs[i]]]],
       Y_src |-> [i \in 1..nx |-> [j \in 1..ny |-> [k \in 1..nz |-> ys[j]]]],
       Z_src |-> [i \in 1..nx |-> [j \in 1..ny |-> [k \in 1..nz |-> zs[k]]]],
       R |-> R_init]

\* Lx, Ly, Lz and dist_max as lines 86-89 (and 297-300, 378-381) compute them
DistMax(X_src, Y_src, Z_src, R) ==
  LET Lx == SetMax(Values3(X_src)) - SetMin(Values3(X_src)) + R
      Ly == SetMax(Values3(Y_src)) - SetMin(Values3(Y_src)) + R
      Lz == SetMax(Values3(Z_src)) - SetMin(Values3(Z_src)) + R
  IN  Sqrt(Lx * Lx + Ly * Ly + Lz * Lz)

\* lines 49-70: the attributes assigned before the source type is checked
ResolvedParams(s, params) ==
  LET col(d) == {s.elec_pos[i][d] : i \in 1..Len(s.elec_pos)}
      xmax == Get(params, "x_max", SetMax(col(1)))
      xmin == Get(params, "x_min", SetMin(col(1)))
      ymax == Get(params, "y_max", SetMax(col(2)))
      ymin == Get(params, "y_min", SetMin(col(2)))
      zmax == Get(params, "z_max", SetMax(col(3)))
      zmin == Get(params, "z_min", SetMin(col(3)))
  IN  [n_sources |-> Get(params, "n_sources", 100),
       xmax |-> xmax, xmin |-> xmin, ymax |-> ymax, ymin |-> ymin,
       zmax |-> zmax, zmin |-> zmin,
       lambd |-> Get(params, "lambda", 0),
       R_init |-> Get(params, "R_init", 2 * pdist_min(s.elec_pos)),
       ext_X |-> Get(params, "ext_X", 0),
       ext_Y |-> Get(params, "ext_Y", 0),
       ext_Z |-> Get(params, "ext_Z", 0),
       gdX |-> Get(params, "gdX", (xmax - xmin) \div 20),
       gdY |-> Get(params, "gdY", (ymax - ymin) \div 20),
       gdZ |-> Get(params, "gdZ", (zmax - zmin) \div 20),
       source_type |-> Get(params, "source_type", "gaussian")]
      @@ s

\* lines 76-78: the three axes of the estimation grid
GridAxes(s) ==
  [lin_x |-> linspace(s.xmin, s.xmax, (s.xmax - s.xmin) \div s.gdX + 1),
   lin_y |-> linspace(s.ymin, s.ymax, (s.ymax - s.ymin) \div s.gdY + 1),
   lin_z |-> linspace(s.zmin, s.ymax, (s.zmax - s.zmin) \div s.gdZ + 1)]

\* lines 74-89: what follows the check of the source type; `shape` is the
\* lattice shape make_src_3D settles on
LaidOut(s, shape) ==
  LET ax  == GridAxes(s)
      g   == Array(meshgrid(ax.lin_x, ax.lin_y, ax.lin_z))
      src == Array(make_src_3D(g.X, g.Y, g.Z, shape, s.ext_X, s.ext_Y, s.ext_Z,
                               s.R_init))
  IN  [lambdas |-> [n \in 1..(MaxLambdaExp + 1) |-> LamDen \div (2 ^ (n - 1))],
       space_X |-> g.X, space_Y |-> g.Y, space_Z |-> g.Z,
       X_src |-> src.X_src, Y_src |-> src.Y_src, Z_src |-> src.Z_src,
       R |-> src.R,
       dist_max |-> DistMax(src.X_src, src.Y_src, src.Z_src, src.R)]
      @@ s

\* set_parameters: [exc, self]; the attributes assigned before an exception stay
set_parameters(s, params, shape) ==
  LET s1 == ResolvedParams(s, params)
  IN  IF s1.source_type \notin SourceTypes
      THEN [exc |-> "Incorrect source type!", self |-> s1]
      ELSE [exc |-> "", self |-> LaidOut(s1, shape)]

\* __init__: [exc, self]
init(elec_pos, sampled_pots, params, shape) ==
  LET exc == validate_parameters(elec_pos, sampled_pots)
  IN  IF exc # "" THEN [exc |-> exc, self |-> <<>>]
      ELSE set_parameters([elec_pos |-> elec_pos, sampled_pots |-> sampled_pots],
                          params, shape)

-----------------------------------------------------------------------------
(* Matrices *)

RECURSIVE SumSeq(_)
SumSeq(s) == IF s = <<>> THEN 0 ELSE s[1] + SumSeq(Tail(s))

\* numpy.transpose of a matrix
transpose(A) == [j \in 1..Len(A[1]) |-> [i \in 1..Len(A) |-> A[i][j]]]

\* numpy.dot of two matrices whose inner dimensions agree
dot(A, B) ==
  [i \in 1..Len(A) |-> [j \in 1..Len(B[1]) |->
     SumSeq([k \in 1..Len(B) |-> A[i][k] * B[k][j]])]]

\* np.unravel_index(i, (nx, ny, nz)): row-major, the last index runs fastest
unravel_index_C(i, shape) ==
  <<i \div (shape[2] * shape[3]), (i \div shape[3]) % shape[2], i % shape[3]>>

\* np.unravel_index(i, (nx, ny, nz), order='F'): the first index runs fastest
unravel_index_F(i, shape) ==
  <<i % shape[1], (i \div shape[1]) % shape[2], i \div (shape[1] * shape[2])>>

\* the centre [X_src[ix], Y_src[ix], Z_src[ix]] at a multi-index counted from 0
SrcAt(s, ix) ==
  <<s.X_src[ix[1] + 1][ix[2] + 1][ix[3] + 1],
    s.Y_src[ix[1] + 1][ix[2] + 1][ix[3] + 1],
    s.Z_src[ix[1] + 1][ix[2] + 1][ix[3] + 1]>>

\* the grid point [space_X[ix], space_Y[ix], space_Z[ix]]
GridAt(s, ix) ==
  <<s.space_X[ix[1] + 1][ix[2] + 1][ix[3] + 1],
    s.space_Y[ix[1] + 1][ix[2] + 1][ix[3] + 1],
    s.space_Z[ix[1] + 1][ix[2] + 1][ix[3] + 1]>>

NSrc(s) == Len(s.X_src) * Len(s.X_src[1]) * Len(s.X_src[1][1])

NGrid(s) == Len(s.space_X) * Len(s.space_X[1]) * Len(s.space_X[1][1])

Builds == {"wrapping", "saturating"}

\* numpy.uint16 of a float that is a whole number >= 0.  Out of range the C
\* cast is undefined: a build either keeps the low 16 bits or saturates
uint16(v, b) ==
  IF v < 65536 THEN v
  ELSE IF b = "wrapping" THEN v % 65536
  ELSE 65535

\* line 317: np.minimum(uint16(np.round(dt_len * dist/dist_max)), dt_len-1)
TableIndex(dist, dist_max, dt_len, b) ==
  Min(uint16(Round(dt_len * dist, dist_max), b), dt_len - 1)

\* line 368, for one grid point: the same with np.maximum(0, ...) around it
GridTableIndex(dist, dist_max, dt_len, b) ==
  Max(0, Min(uint16(Round(dt_len * dist, dist_max), b), dt_len - 1))

\* create_dist_table: dist_table_density values, entry k the potential of one
\* basis source at the distance k/density * dist_max.  The integrals are
\* scipy's; the model keeps a table that is finite, largest at distance 0 and
\* decays in three steps
create_dist_table(s) ==
  [k \in 1..dist_table_density |-> 2 - (3 * (k - 1)) \div dist_table_density]

\* basis_functions.*_rescale*: the density at the point p of the basis source
\* centred at c, of radius R; gauss_lim looks at x and y only
BasisValue(source_type, p, c, R) ==
  LET d3 == norm(p, c)
      d2 == norm(<<p[1], p[2], 0>>, <<c[1], c[2], 0>>)
  IN  CASE source_type = "step" -> IF d3 <= R THEN 1 ELSE 0
        [] source_type = "gaussian" ->
             IF 2 * d3 <= R THEN 2 ELSE IF d3 <= R THEN 1 ELSE 0
        [] source_type = "gauss_lim" ->
             IF 2 * d2 <= R THEN 2 ELSE IF d2 <= R THEN 1 ELSE 0

\* the index into X_src the loop of calculate_b_pot_matrix_3D uses for source i
BPotSrcIndex(i, shape) == unravel_index_C(i, shape)

\* calculate_b_pot_matrix_3D: rows are sources, columns electrodes
calculate_b_pot_matrix_3D(s, b) ==
  With(DistMax(s.X_src, s.Y_src, s.Z_src, s.R), LAMBDA dist_max :
    [i \in 1..NSrc(s) |-> [j \in 1..Len(s.elec_pos) |->
       LET src  == SrcAt(s, BPotSrcIndex(i - 1, Shape3(s.X_src)))
           dist == norm(s.elec_pos[j], src)
           ind  == TableIndex(dist, dist_max, Len(s.dist_table), b)
       IN  s.dist_table[ind + 1]]])

\* make_b_src_matrix_3D: the 4D array reshaped to grid points x sources
make_b_src_matrix_3D(s) ==
  [g \in 1..NGrid(s) |-> [i \in 1..NSrc(s) |->
     LET src == SrcAt(s, unravel_index_F(i - 1, Shape3(s.X_src)))
         p   == GridAt(s, unravel_index_C(g - 1, Shape3(s.space_X)))
     IN  BasisValue(s.source_type, p, src, s.R)]]

\* make_b_interp_pot_matrix_3D with generated_potential: grid points x sources
make_b_interp_pot_matrix_3D(s, b) ==
  With(DistMax(s.X_src, s.Y_src, s.Z_src, s.R), LAMBDA dist_max :
    [g \in 1..NGrid(s) |-> [i \in 1..NSrc(s) |->
       LET src   == SrcAt(s, unravel_index_F(i - 1, Shape3(s.X_src)))
           p     == GridAt(s, unravel_index_C(g - 1, Shape3(s.space_X)))
           norms == norm(p, src)
           ind   == GridTableIndex(norms, dist_max, Len(s.dist_table), b)
       IN  s.dist_table[ind + 1]]])

\* calculate_matrices: the object with the table and the six matrices assigned
calculate_matrices(s, b) ==
  With([dist_table |-> Array(create_dist_table(s))] @@ s, LAMBDA s1 :
  With([b_pot_matrix |-> Array(calculate_b_pot_matrix_3D(s1, b))] @@ s1,
       LAMBDA s2 :
  With([k_pot |-> Array(dot(transpose(s2.b_pot_matrix), s2.b_pot_matrix))]
       @@ s2, LAMBDA s3 :
  With([b_src_matrix |-> Array(make_b_src_matrix_3D(s3))] @@ s3, LAMBDA s4 :
  With([k_interp_cross |-> Array(dot(s4.b_src_matrix, s4.b_pot_matrix))] @@ s4,
       LAMBDA s5 :
  With([b_interp_pot_matrix |-> Array(make_b_interp_pot_matrix_3D(s5, b))]
       @@ s5, LAMBDA s6 :
    [interp_pot |-> Array(dot(s6.b_interp_pot_matrix, s6.b_pot_matrix))] @@ s6
  ))))))

-----------------------------------------------------------------------------
(* The solver *)

Minor(M, i, j) ==
  [r \in 1..(Len(M) - 1) |-> [c \in 1..(Len(M) - 1) |->
     M[IF r < i THEN r ELSE r + 1][IF c < j THEN c ELSE c + 1]]]

RECURSIVE Det(_)
Det(M) ==
  IF Len(M) = 1 THEN M[1][1]
  ELSE SumSeq([j \in 1..Len(M) |->
         IF M[1][j] = 0 THEN 0
         ELSE (IF j % 2 = 1 THEN 1 ELSE -1) * M[1][j] * Det(Minor(M, 1, j))])

Adjugate(M) ==
  [i \in 1..Len(M) |-> [j \in 1..Len(M) |->
     IF Len(M) = 1 THEN 1
     ELSE (IF (i + j) % 2 = 0 THEN 1 ELSE -1) * Det(Minor(M, j, i))]]

\* LamDen * (k_pot + lambd * identity(n)), lambd being a numerator over LamDen
Regularized(k_pot, lambd) ==
  [i \in 1..Len(k_pot) |-> [j \in 1..Len(k_pot) |->
     LamDen * k_pot[i][j] + (IF i = j THEN lambd ELSE 0)]]

\* an inversion that never raises
SingularNever(k_pot, lambd) == FALSE

\* np.linalg.inv raises LinAlgError on a singular matrix
Singular(k_pot, lambd) ==
  With(Array(Regularized(k_pot, lambd)), LAMBDA A : Det(A) = 0)

\* lines 95-96: beta = dot(inv(k_pot + lambd*I), sampled_pots), a vector of
\* numerators over one denominator
Solve(k_pot, lambd, sampled_pots) ==
  With(Array(Regularized(k_pot, lambd)), LAMBDA A :
  With(Array(Adjugate(A)), LAMBDA adj :
    [num |-> Array([i \in 1..Len(A) |->
                LamDen * SumSeq([j \in 1..Len(A) |->
                                   adj[i][j] * sampled_pots[j]])]),
     den |-> Det(A)]))

\* a reshape to the axes in reverse order
reshape_reversed(flat, shape) ==
  [a \in 1..shape[3] |-> [b \in 1..shape[2] |-> [c \in 1..shape[1] |->
     flat[((a - 1) * shape[2] + (b - 1)) * shape[1] + c]]]]

\* ndarray.reshape(nx, ny, nz) of a flat array
reshape(flat, shape) ==
  [a \in 1..shape[1] |-> [b \in 1..shape[2] |-> [c \in 1..shape[3] |->
     flat[((a - 1) * shape[2] + (b - 1)) * shape[3] + c]]]]

\* lines 98-104: the sum over the electrodes of beta[i] * estimation_table[:,i],
\* reshaped to the shape of space_X
Project(s, estimation_table, b) ==
  With(Array([g \in 1..NGrid(s) |->
                SumSeq([i \in 1..Len(s.elec_pos) |->
                          b.num[i] * estimation_table[g][i]])]),
       LAMBDA output :
         [num |-> Array(reshape(output, Shape3(s.space_X))), den |-> b.den])

\* an estimate that hands back the field it stored earlier, when there is one
EstimateCached(s, table_name) ==
  LET field == IF table_name = "interp_pot" THEN "estimated_pots"
               ELSE "estimated_csd"
  IN  IF table_name \notin DOMAIN s \/ "k_pot" \notin DOMAIN s
      THEN [exc |-> "AttributeError", beta |-> <<>>, val |-> <<>>]
      ELSE IF Singular(s.k_pot, s.lambd)
      THEN [exc |-> "LinAlgError", beta |-> <<>>, val |-> <<>>]
      ELSE With(Solve(s.k_pot, s.lambd, s.sampled_pots), LAMBDA b :
             [exc |-> "", beta |-> <<b>>,
              val |-> IF field \in DOMAIN s THEN <<s[field]>>
                      ELSE <<Project(s, s[table_name], b)>>])

\* the body shared by estimate_pots and estimate_csd: [exc, beta, val]
Estimate(s, table_name) ==
  IF table_name \notin DOMAIN s \/ "k_pot" \notin DOMAIN s
  THEN [exc |-> "AttributeError", beta |-> <<>>, val |-> <<>>]
  ELSE IF Singular(s.k_pot, s.lambd)
  THEN [exc |-> "LinAlgError", beta |-> <<>>, val |-> <<>>]
  ELSE With(Solve(s.k_pot, s.lambd, s.sampled_pots), LAMBDA b :
         [exc |-> "", beta |-> <<b>>,
          val |-> <<Project(s, s[table_name], b)>>])

\* estimate_pots: [exc, beta, val, self]
estimate_pots(s) ==
  With(Estimate(s, "interp_pot"), LAMBDA e :
    [exc |-> e.exc, beta |-> e.beta, val |-> e.val,
     self |-> IF e.exc = "" THEN [estimated_pots |-> e.val[1]] @@ s ELSE s])

\* an estimate_csd that folds lambd into the stored k_pot
estimate_csd_absorbing(s) ==
  With(Estimate(s, "k_interp_cross"), LAMBDA e :
    [exc |-> e.exc, beta |-> e.beta, val |-> e.val,
     self |-> IF e.exc # "" THEN s
              ELSE [estimated_csd |-> e.val[1],
                    k_pot |-> Array(Regularized(s.k_pot, s.lambd))] @@ s])

\* estimate_csd: [exc, beta, val, self]
estimate_csd(s) ==
  With(Estimate(s, "k_interp_cross"), LAMBDA e :
    [exc |-> e.exc, beta |-> e.beta, val |-> e.val,
     self |-> IF e.exc = "" THEN [estimated_csd |-> e.val[1]] @@ s ELSE s])

\* np.mean(errors_iter) as sum over count; two means are compared exactly
Mean(errors_iter) == [num |-> SumSeq(errors_iter), den |-> Len(errors_iter)]

MeanLeq(a, b) == a.num * b.den <= b.num * a.den

\* a choice of the last candidate of minimal mean error
choose_lambda_last(lambdas, errs) ==
  LET total(i) == SumSeq(errs[i])
      IsMin(i) == \A k \in 1..Len(lambdas) : total(i) <= total(k)
  IN  lambdas[SetMax({i \in 1..Len(lambdas) : IsMin(i)})]

\* choose_lambda, given the value cv.cross_validation returns for candidate i
\* in run j as errs[i][j]: lambdas[errors == min(errors)][0]
choose_lambda(lambdas, errs) ==
  LET errors == [i \in 1..Len(lambdas) |-> Mean(errs[i])]
      IsMin(i) == \A k \in 1..Len(lambdas) : MeanLeq(errors[i], errors[k])
      first == SetMin({i \in 1..Len(lambdas) : IsMin(i)})
  IN  lambdas[first]

-----------------------------------------------------------------------------
(* Inputs *)

\* the number of cross-validation runs per candidate goes up to MaxIter
MaxIter == 2

\* the values cv.cross_validation returns
Errs == {0, 1}

\* the largest requested source count
MaxSources == 8

ElecThree == << <<0, 0, 0>>, <<20, 0, 0>>, <<0, 20, 40>> >>

ElecTetra == << <<0, 0, 0>>, <<20, 0, 0>>, <<0, 20, 0>>, <<0, 0, 40>> >>

ElecDup == << <<0, 0, 0>>, <<20, 20, 40>>, <<0, 20, 0>>, <<0, 20, 0>> >>

\* the fourth electrode lies 34100 away from a domain that the parameters
\* keep at 20: some 656 times dist_max
ElecFar == << <<0, 0, 0>>, <<0, 20, 0>>, <<0, 0, 40>>, <<34100, 0, 0>> >>

ElecPenta ==
  << <<0, 0, 0>>, <<20, 0, 0>>, <<0, 20, 0>>, <<0, 0, 40>>, <<20, 20, 40>> >>

Pots3 == <<1, 0, -1>>

Pots4 == <<1, 0, -1, 2>>

Pots5 == <<1, 0, -1, 2, 0>>

\* the requested source counts: one source, a full axis, a full plane and the
\* full lattice
NSourceChoices == {MaxSrcPerAxis ^ e : e \in 0..3} \cap (1..MaxSources)

Grid == [gdX |-> 20, gdY |-> 20, gdZ |-> 20]

ConstructorArgs ==
  {[elec_pos |-> ElecTetra, sampled_pots |-> Pots4,
    params |-> [n_sources |-> n] @@ Grid] : n \in NSourceChoices}
  \cup
  {[elec_pos |-> ElecTetra, sampled_pots |-> Pots4,
    params |-> [n_sources |-> 8, source_type |-> st, gdY |-> 10,
                lambda |-> 1] @@ Grid] : st \in {"step", "gauss_lim", "bogus"}}
  \cup
  {[elec_pos |-> ElecDup, sampled_pots |-> Pots4,
    params |-> [n_sources |-> 8, R_init |-> 10] @@ Grid],
   [elec_pos |-> ElecFar, sampled_pots |-> Pots4,
    params |-> [n_sources |-> 8, x_max |-> 20, R_init |-> 10] @@ Grid],
   [elec_pos |-> ElecPenta, sampled_pots |-> Pots5,
    params |-> [n_sources |-> 1, lambda |-> 1] @@ Grid],
   [elec_pos |-> ElecThree, sampled_pots |-> Pots3,
    params |-> [n_sources |-> 4] @@ Grid],
   [elec_pos |-> ElecThree, sampled_pots |-> Pots4,
    params |-> [n_sources |-> 4, source_type |-> "bogus"] @@ Grid],
   [elec_pos |-> ElecTetra, sampled_pots |-> Pots5,
    params |-> [n_sources |-> 4] @@ Grid],
   [elec_pos |-> ElecTetra, sampled_pots |-> Pots3,
    params |-> [n_sources |-> 4, source_type |-> "step"] @@ Grid]}

\* the values a caller assigns to lambd: 0 and the candidates 1/2^n
LambdaValues == {0} \cup {LamDen \div (2 ^ n) : n \in 0..MaxLambdaExp}

-----------------------------------------------------------------------------
(* The calls *)

NoRet == [exc |-> "", val |-> <<>>]

Init ==
  /\ pc = "start"
  /\ self = <<>>
  /\ build \in Builds
  /\ args = <<>>
  /\ last_op = ""
  /\ ret = NoRet
  /\ beta = <<>>
  /\ cv = <<>>
  /\ chosen = <<>>

\* KCSD3D(elec_pos, sampled_pots, params)
Construct ==
  /\ pc = "start"
  /\ \E a \in ConstructorArgs :
       \E shape \in SrcShapes(Get(a.params, "n_sources", 100)) :
         \E r \in {init(a.elec_pos, a.sampled_pots, a.params, shape)} :
           /\ pc' = IF r.exc = "" THEN "constructed" ELSE "failed"
           /\ self' = r.self
           /\ args' = a
           /\ ret' = [exc |-> r.exc, val |-> <<>>]
  /\ last_op' = "__init__"
  /\ UNCHANGED <<build, beta, cv, chosen>>

CalculateMatrices ==
  /\ pc = "constructed"
  /\ self' = calculate_matrices(self, build)
  /\ last_op' = "calculate_matrices"
  /\ ret' = NoRet
  /\ beta' = <<>>
  /\ UNCHANGED <<pc, build, args, cv, chosen>>

EstimatePots ==
  /\ pc = "constructed"
  /\ \E r \in {estimate_pots(self)} :
       /\ self' = r.self
       /\ ret' = [exc |-> r.exc, val |-> r.val]
       /\ beta' = r.beta
  /\ last_op' = "estimate_pots"
  /\ UNCHANGED <<pc, build, args, cv, chosen>>

EstimateCsd ==
  /\ pc = "constructed"
  /\ \E r \in {estimate_csd(self)} :
       /\ self' = r.self
       /\ ret' = [exc |-> r.exc, val |-> r.val]
       /\ beta' = r.beta
  /\ last_op' = "estimate_csd"
  /\ UNCHANGED <<pc, build, args, cv, chosen>>

\* the caller assigns the attribute: k.lambd = value
SetLambd ==
  /\ pc = "constructed"
  /\ \E value \in LambdaValues : self' = [lambd |-> value] @@ self
  /\ last_op' = "set_lambd"
  /\ ret' = NoRet
  /\ chosen' = <<>>
  /\ beta' = <<>>
  /\ UNCHANGED <<pc, build, args, cv>>

\* a choose_lambda that also assigns what it returns to self.lambd
ChooseLambdaCallStoring(lambdas, errs) ==
  /\ pc = "constructed"
  /\ "k_pot" \in DOMAIN self
  /\ \E value \in {choose_lambda(lambdas, errs)} :
       /\ ret' = [exc |-> "", val |-> <<value>>]
       /\ chosen' = <<value>>
       /\ self' = [lambd |-> value] @@ self
  /\ last_op' = "choose_lambda"
  /\ beta' = <<>>
  /\ UNCHANGED <<pc, build, args, cv>>

\* choose_lambda(lambdas, n_folds, n_iter), cv.cross_validation returning
\* errs[i][j] for candidate i in run j
ChooseLambdaCall(lambdas, errs) ==
  /\ pc = "constructed"
  /\ IF "k_pot" \notin DOMAIN self
     THEN /\ ret' = [exc |-> "AttributeError", val |-> <<>>]
          /\ chosen' = chosen
     ELSE \E value \in {choose_lambda(lambdas, errs)} :
            /\ ret' = [exc |-> "", val |-> <<value>>]
            /\ chosen' = <<value>>
  /\ last_op' = "choose_lambda"
  /\ beta' = <<>>
  /\ UNCHANGED <<pc, self, build, args, cv>>

\* k.choose_lambda(k.lambdas): one cross-validation run per candidate
ChooseLambda ==
  /\ pc = "constructed"
  /\ \E errs \in [1..Len(self.lambdas) -> [1..1 -> Errs]] :
       ChooseLambdaCall(self.lambdas, errs)

Next ==
  \/ Construct
  \/ CalculateMatrices
  \/ EstimatePots
  \/ EstimateCsd
  \/ SetLambd
  \/ ChooseLambda

Spec == Init /\ [][Next]_vars

-----------------------------------------------------------------------------
(* choose_lambda on its own: the candidates and the cross-validation errors *)
(* are drawn at the start, the call is made on an object whose matrices     *)
(* are calculated.                                                          *)

\* the longest candidate list
MaxCandidates == 3

\* the candidates are taken from two values, so a list may repeat one
CandidateLists == UNION {[1..n -> {1, 2}] : n \in 1..MaxCandidates}

ReadyObject ==
  calculate_matrices(
    init(ElecTetra, Pots4, [n_sources |-> 1] @@ Grid, <<1, 1, 1>>).self,
    "wrapping")

InitCV ==
  /\ pc = "constructed"
  /\ self = ReadyObject
  /\ build = "wrapping"
  /\ args = [elec_pos |-> ElecTetra, sampled_pots |-> Pots4,
             params |-> [n_sources |-> 1] @@ Grid]
  /\ last_op = "calculate_matrices"
  /\ ret = NoRet
  /\ beta = <<>>
  /\ chosen = <<>>
  /\ \E lambdas \in CandidateLists : \E n_iter \in 1..MaxIter :
       \E errs \in [1..Len(lambdas) -> [1..n_iter -> Errs]] :
         cv = [lambdas |-> lambdas, errs |-> errs]

ChooseLambdaCV ==
  /\ last_op # "choose_lambda"
  /\ ChooseLambdaCall(cv.lambdas, cv.errs)

NextCV == ChooseLambdaCV

SpecCV == InitCV /\ [][NextCV]_vars

-----------------------------------------------------------------------------
(* The claims *)

Estimates == {"estimate_pots", "estimate_csd"}

SourceLayoutAttrs == {"X_src", "Y_src", "Z_src", "R", "dist_max"}

MatrixAttrs ==
  {"dist_table", "b_pot_matrix", "b_src_matrix", "b_interp_pot_matrix",
   "k_pot", "k_interp_cross", "interp_pot"}

\* the table and the matrices an object holds
Matrices(s) == [a \in MatrixAttrs \cap DOMAIN s |-> s[a]]

IsShape2(A, rows, cols) ==
  Len(A) = rows /\ \A r \in 1..rows : Len(A[r]) = cols

IsShape3(A, shape) ==
  /\ Len(A) = shape[1]
  /\ \A a \in 1..shape[1] :
       /\ Len(A[a]) = shape[2]
       /\ \A b \in 1..shape[2] : Len(A[a][b]) = shape[3]

\* the matrix an estimate projects with
TableOf(op) == IF op = "estimate_pots" THEN "interp_pot" ELSE "k_interp_cross"

\* the centre that column i of B_src is computed from
Centre(s, i) == SrcAt(s, unravel_index_F(i - 1, Shape3(s.X_src)))

\* table[k] with k = min(round(density * d / dist_max), density - 1)
Lookup(s, d) ==
  s.dist_table[Min(Round(dist_table_density * d, s.dist_max),
                   dist_table_density - 1) + 1]

\* the summed cross-validation error of candidate i: the runs per candidate
\* are equally many, so the means compare as the sums do
Total(i) == SumSeq(cv.errs[i])

\* C1: a construction whose electrode and potential counts differ, or that
\* has fewer than 4 electrodes, or whose source type is none of the three
\* accepted ones, ends in an error, and the object then holds no source
\* layout, no distance table and no matrix.
C1_RejectedBeforeLayout ==
  (/\ pc # "start"
   /\ \/ Len(args.elec_pos) # Len(args.sampled_pots)
      \/ Len(args.elec_pos) < 4
      \/ Get(args.params, "source_type", "gaussian")
           \notin {"gaussian", "step", "gauss_lim"})
  => /\ pc = "failed"
     /\ ret.exc # ""
     /\ (SourceLayoutAttrs \cup MatrixAttrs) \cap DOMAIN self = {}

\* C1 happens: the source type was rejected after the parameters were resolved
C1_Witness ==
  /\ pc = "failed"
  /\ ret.exc = "Incorrect source type!"
  /\ Len(args.elec_pos) = 4
  /\ "source_type" \in DOMAIN self

\* C2: row i of B_pot, column i of B_src and column i of B_interp_pot are
\* computed from the same source centre, for every source i and lattice shape:
\* B_pot[i][j] is the table's potential at the distance between electrode j and
\* the centre that column i of B_src belongs to.
C2_SameCentre ==
  "b_pot_matrix" \in DOMAIN self =>
    \A i \in 1..NSrc(self) : \A j \in 1..Len(self.elec_pos) :
      self.b_pot_matrix[i][j]
        = self.dist_table[
            TableIndex(norm(self.elec_pos[j], Centre(self, i)), self.dist_max,
                       dist_table_density, build) + 1]

\* C3: every entry of B_pot is table[k] with
\* k = min(round(density * d / dist_max), density - 1), d the distance between
\* the electrode and the source centre the row is computed from, however large.
C3_ClampedLookup ==
  "b_pot_matrix" \in DOMAIN self =>
    \A i \in 1..NSrc(self) : \A j \in 1..Len(self.elec_pos) :
      self.b_pot_matrix[i][j]
        = Lookup(self, norm(self.elec_pos[j],
                            SrcAt(self, BPotSrcIndex(i - 1, Shape3(self.X_src)))))

\* C4: once the matrices are calculated K_pot is electrodes x electrodes and
\* K_interp_cross and Interp_pot are grid points x electrodes, and the array a
\* successful estimate returns has the shape of the estimation grid.
C4_Shapes ==
  /\ "k_pot" \in DOMAIN self =>
       /\ IsShape2(self.k_pot, Len(self.elec_pos), Len(self.elec_pos))
       /\ IsShape2(self.k_interp_cross, NGrid(self), Len(self.elec_pos))
       /\ IsShape2(self.interp_pot, NGrid(self), Len(self.elec_pos))
  /\ (last_op \in Estimates /\ ret.exc = "") =>
       IsShape3(ret.val[1].num, Shape3(self.space_X))

\* C4 happens: an estimate on a grid whose three axes are not equally long,
\* and one with five electrodes
C4_Witness ==
  /\ last_op = "estimate_csd"
  /\ ret.exc = ""
  /\ Shape3(self.space_X) = <<3, 2, 3>>
  /\ NSrc(self) = 8
  /\ Len(self.elec_pos) = 4

\* C5: choose_lambda returns a candidate of minimal mean error, and no
\* candidate before it in the list has that mean error.
C5_FirstMinimalMean ==
  (last_op = "choose_lambda" /\ ret.exc = "") =>
    \E i \in 1..Len(cv.lambdas) :
      /\ ret.val = <<cv.lambdas[i]>>
      /\ \A k \in 1..Len(cv.lambdas) : Total(i) <= Total(k)
      /\ \A k \in 1..(i - 1) : Total(k) > Total(i)

\* C5 happens: the second and the third of three candidates tie below the first
C5_Witness ==
  /\ last_op = "choose_lambda"
  /\ ret.exc = ""
  /\ Len(cv.lambdas) = 3
  /\ Len(cv.errs[1]) = 2
  /\ Total(2) = Total(3)
  /\ Total(2) < Total(1)
  /\ cv.lambdas[2] # cv.lambdas[3]
  /\ ret.val = <<cv.lambdas[2]>>

\* C6: a call of estimate_pots, estimate_csd or choose_lambda leaves the
\* distance table and the six matrices as they were, and a step that changes
\* any of them is a call of calculate_matrices.
C6_OnlyCalculateMatricesWrites ==
  [][/\ last_op' \in Estimates \cup {"choose_lambda"}
          => Matrices(self') = Matrices(self)
     /\ Matrices(self') # Matrices(self) => last_op' = "calculate_matrices"]_vars

\* C6 happens: both estimates and a choose_lambda ran on calculated matrices
C6_Witness ==
  /\ last_op = "choose_lambda"
  /\ ret.exc = ""
  /\ DOMAIN Matrices(self) = MatrixAttrs
  /\ {"estimated_pots", "estimated_csd"} \subseteq DOMAIN self

\* C7 as stated: after choose_lambda returned a value, and without the caller
\* assigning it, the next estimate solves with that value.
C7_SelectionFedBack ==
  [][(chosen # <<>> /\ last_op' \in Estimates) =>
       IF Singular(self.k_pot, chosen[1]) THEN ret'.exc = "LinAlgError"
       ELSE /\ ret'.exc = ""
            /\ beta' = <<Solve(self.k_pot, chosen[1], self.sampled_pots)>>]_vars

\* C7 amended: choose_lambda only returns its choice and leaves the object as
\* it was; an estimate made after it, without the caller assigning lambd,
\* solves with the lambd the object had before choose_lambda was called.
C7_SelectionOnlyReturned ==
  [][/\ last_op' = "choose_lambda" => self' = self
     /\ (chosen # <<>> /\ last_op' \in Estimates) =>
          IF Singular(self.k_pot, self.lambd) THEN ret'.exc = "LinAlgError"
          ELSE /\ ret'.exc = ""
               /\ beta' = <<Solve(self.k_pot, self.lambd, self.sampled_pots)>>
    ]_vars

\* C7 happens: an estimate succeeded after choose_lambda returned a value
\* that is not the object's lambd
C7_Witness ==
  /\ chosen # <<>>
  /\ last_op \in Estimates
  /\ ret.exc = ""
  /\ chosen[1] # self.lambd

C9_Recomputed ==
  (last_op \in Estimates /\ ret.exc = "") =>
    /\ beta = <<Solve(self.k_pot, self.lambd, self.sampled_pots)>>
    /\ ret.val = <<Project(self, self[TableOf(last_op)], beta[1])>>
    /\ self[IF last_op = "estimate_pots" THEN "estimated_pots"
            ELSE "estimated_csd"] = ret.val[1]

\* C9 happens: estimate_csd ran after lambd was changed, the potentials
\* stored by the earlier estimate_pots being those of another beta
C9_Witness ==
  /\ last_op = "estimate_csd"
  /\ ret.exc = ""
  /\ "estimated_pots" \in DOMAIN self
  /\ self.estimated_pots # Project(self, self.interp_pot, beta[1])

\* C10: on each axis the grid runs from the minimum of the domain on that axis
\* to its maximum, with the point count given by the extent and the spacing of
\* that axis.
C10_GridSpansDomain ==
  pc = "constructed" =>
    /\ SetMin(Values3(self.space_X)) = self.xmin
    /\ SetMax(Values3(self.space_X)) = self.xmax
    /\ SetMin(Values3(self.space_Y)) = self.ymin
    /\ SetMax(Values3(self.space_Y)) = self.ymax
    /\ SetMin(Values3(self.space_Z)) = self.zmin
    /\ SetMax(Values3(self.space_Z)) = self.zmax
    /\ Shape3(self.space_X) = <<(self.ymax - self.ymin) \div self.gdY + 1,
                               (self.xmax - self.xmin) \div self.gdX + 1,
                               (self.zmax - self.zmin) \div self.gdZ + 1>>

====
